---- MODULE Spec2Model ----
(***************************************************************************)
(* Structural-file pipeline of backend/analysis1.py: pose splitter,        *)
(* ligand normaliser, receptor/ligand merger, coordinate sanitizer and     *)
(* cleaner.  A line is a sequence of one-character strings; a file that    *)
(* has been read with readlines() is a sequence of lines, each ending in   *)
(* "\n" except possibly the last one.                                      *)
(***************************************************************************)
EXTENDS Integers, Sequences, FiniteSets, TLC

VARIABLES
    \* ---- split_pdbqt_models ----
    spPc,        \* "idle" | "loop" | "done"
    srcHeader,   \* the source file: lines before the first MODEL
    srcBlocks,   \* the source file: its MODEL blocks, in order
    srcFinalNL,  \* the source file: does its last line end in "\n"
    lines,       \* fh.readlines()
    spI,         \* index of the line the for-loop is at
    current, header, model_idx, in_model, saw_model,
    produced,    \* sequence of [idx, content]: the pose files written, in order
    \* ---- sanitize_coordinates ----
    sanPc,       \* "call" | "done"
    sanLine,     \* the argument
    sanResult,   \* the value returned
    \* ---- minimal_clean_pdb ----
    clPc,        \* "loop" | "finish" | "done"
    clIn,        \* in_pdb: the lines of the input file
    clI,         \* index of the line the for-loop is at
    cleaned_lines,
    cl_in_model, \* the in_model flag of minimal_clean_pdb
    clStatus,    \* "running" | "ok" | "error" (RuntimeError raised)
    clOut,       \* content of out_path, NoFile while it has not been written
    clFirst,     \* content of the file a first call wrote, when the cleaner
                 \* is called again on that file; NoFile otherwise
    \* ---- ensure_ligand_chain_and_hetatm, merge_receptor_and_ligand ----
    mgPc,        \* "start" | "ensured" | "done"
    recFile,     \* receptor_pdb: the lines of the file
    ligFile,     \* ligand_pdb: the lines of the file
    mgPreferred, \* ligand_chain_preferred
    lig_chain,   \* the chain id merge_receptor_and_ligand chose
    mgStatus,    \* "running" | "ok" | "error" (IndexError raised)
    mgOut,        \* content of out_path, NoFile while it has not been written
    \* ---- split_pdbqt (analysis3), split_pdbqt_models (api/analysis) ----
    altPc,       \* "idle" | "wait" | "third" | "both"
    poses3,      \* the pose files split_pdbqt wrote, in order
    posesApi,     \* the pose files the api split_pdbqt_models wrote, in order
    \* ---- plip_convert_merge_and_run: the loop over the poses ----
    plPc,        \* "idle" | "try" | "finally" | "return" | "done" | "crashed"
    plTotal,     \* len(split_files)
    plIdx,       \* idx of the loop
    plStage,     \* the call the try block is at
    pose_results,
    pose_folders, \* manifest["pose_folders"]
    \* ---- api/docking: one job of JOBS, its runner thread, cancel_job ----
    jobStatus,   \* JOBS[job_id]["status"], "absent" while the job is not in JOBS
    progress,    \* JOBS[job_id]["progress"]
    jobPid,      \* JOBS[job_id]["pid"], NoPid for None
    canceled,    \* JOBS[job_id]["canceled"]
    rnPc,        \* the runner thread: "none" | "start" | "popen" | "setpid"
                 \* | "loop" | "end"
    procState,   \* the script subprocess: "none" | "running" | "exited"
    returncode,
    signalled,   \* os.kill has sent the subprocess a signal
    lines_read,
    ckPc,        \* cancel_job: "idle" | "kill" | "set"
    ckPid,       \* the pid cancel_job read under the lock
    nCancel,      \* number of cancel_job requests so far
    \* ---- the generated docking script: run, run_task, the checkpoint ----
    cpPc,        \* run(): "idle" | "load" | "pool" | "end"
    ckptFile,    \* content of checkpoint.txt
    ckptAtStart, \* content of checkpoint.txt when this run started
    completed,   \* load_checkpoint(checkpoint_file)
    tkPc,        \* run_task of each task: "pending" | "skipped" | "running"
                 \* | "exited" | "finished"
    tkRc,        \* process.returncode of each task
    tkOut,       \* os.path.exists(out_file) of each task
    vinaStarted, \* the tasks a vina process was started for in this run
    runNo        \* number of this run of the script

splitVars == <<spPc, srcHeader, srcBlocks, srcFinalNL, lines, spI, current,
               header, model_idx, in_model, saw_model, produced>>

sanVars == <<sanPc, sanLine, sanResult>>

cleanVars == <<clPc, clIn, clI, cleaned_lines, cl_in_model, clStatus, clOut,
               clFirst>>

mergeVars == <<mgPc, recFile, ligFile, mgPreferred, lig_chain, mgStatus, mgOut>>

altVars == <<altPc, poses3, posesApi>>

pipeVars == <<plPc, plTotal, plIdx, plStage, pose_results, pose_folders>>

dockVars == <<jobStatus, progress, jobPid, canceled, rnPc, procState,
              returncode, signalled, lines_read, ckPc, ckPid, nCancel>>

ckptVars == <<cpPc, ckptFile, ckptAtStart, completed, tkPc, tkRc, tkOut,
              vinaStarted, runNo>>

vars == <<splitVars, sanVars, cleanVars, mergeVars, altVars, pipeVars, dockVars, ckptVars>>

\* what each function leaves alone
notSplit == <<sanVars, cleanVars, mergeVars, altVars, pipeVars, dockVars, ckptVars>>
notSan   == <<splitVars, cleanVars, mergeVars, altVars, pipeVars, dockVars, ckptVars>>
notClean == <<splitVars, sanVars, mergeVars, altVars, pipeVars, dockVars, ckptVars>>
notMerge == <<splitVars, sanVars, cleanVars, altVars, pipeVars, dockVars, ckptVars>>
notAlt   == <<splitVars, sanVars, cleanVars, mergeVars, pipeVars, dockVars, ckptVars>>
notPipe  == <<splitVars, sanVars, cleanVars, mergeVars, altVars, dockVars, ckptVars>>
notDock  == <<splitVars, sanVars, cleanVars, mergeVars, altVars, pipeVars, ckptVars>>
notCkpt  == <<splitVars, sanVars, cleanVars, mergeVars, altVars, pipeVars, dockVars>>

\* Bound of the pipeline: the number of pose files the splitter returned
MaxPoses == 2

\* Bounds of the docking job: output lines the runner reads, cancel requests
MaxLines == 70
MaxCancels == 1

\* Bounds of the docking script: its tasks, the runs of the script
MaxTasks == 2
MaxRuns == 2

\* Bounds of the splitter inputs
MaxHeader == 2
MaxBlocks == 2
MaxBody   == 2
MaxStray  == 1
\* Bounds of the sanitizer inputs: columns after the z field
MaxTail == 2
\* Bounds of the cleaner inputs: lines of the input file
MaxCleanLines == 3
\* Bounds of the merger inputs: lines of the receptor and of the ligand file
MaxRecLines == 2
MaxLigLines == 2

\* Characters and strings

NL == "\n"
SP == " "

ascii_uppercase ==
    <<"A","B","C","D","E","F","G","H","I","J","K","L","M",
      "N","O","P","Q","R","S","T","U","V","W","X","Y","Z">>

ascii_lowercase ==
    <<"a","b","c","d","e","f","g","h","i","j","k","l","m",
      "n","o","p","q","r","s","t","u","v","w","x","y","z">>

Digits == <<"0","1","2","3","4","5","6","7","8","9">>

Range(s) == {s[i] : i \in 1..Len(s)}

\* str.upper(), one character
UpperChar(c) ==
    IF \E i \in 1..26 : ascii_lowercase[i] = c
    THEN ascii_uppercase[CHOOSE i \in 1..26 : ascii_lowercase[i] = c]
    ELSE c

\* str.upper()
Upper(s) == [i \in 1..Len(s) |-> UpperChar(s[i])]

IsSpace(c) == c \in {SP, NL, "\t", "\r"}

\* str.strip()
Strip(s) ==
    IF \A i \in 1..Len(s) : IsSpace(s[i]) THEN <<>>
    ELSE LET a == CHOOSE i \in 1..Len(s) :
                    ~IsSpace(s[i]) /\ \A j \in 1..(i-1) : IsSpace(s[j])
             b == CHOOSE i \in 1..Len(s) :
                    ~IsSpace(s[i]) /\ \A j \in (i+1)..Len(s) : IsSpace(s[j])
         IN  SubSeq(s, a, b)

\* str.rstrip("\n")
RStripNL(s) ==
    IF \A i \in 1..Len(s) : s[i] = NL THEN <<>>
    ELSE LET b == CHOOSE i \in 1..Len(s) :
                    s[i] # NL /\ \A j \in (i+1)..Len(s) : s[j] = NL
         IN  SubSeq(s, 1, b)

\* str.startswith(p)
StartsWith(s, p) == Len(s) >= Len(p) /\ SubSeq(s, 1, Len(p)) = p

\* str.ljust(n)
LJust(s, n) == IF Len(s) >= n THEN s ELSE s \o [i \in 1..(n - Len(s)) |-> SP]

kwATOM   == <<"A","T","O","M">>
kwHETATM == <<"H","E","T","A","T","M">>
kwMODEL  == <<"M","O","D","E","L">>
kwENDMDL == <<"E","N","D","M","D","L">>
kwEND    == <<"E","N","D">>
kwTER    == <<"T","E","R">>
kwCONECT == <<"C","O","N","E","C","T">>
kwREMARK == <<"R","E","M","A","R","K">>

\* ln.startswith("ATOM") or ln.startswith("HETATM")
IsAtomLine(s) == StartsWith(s, kwATOM) \/ StartsWith(s, kwHETATM)

RECURSIVE Flatten(_)
\* "".join(ss): what writelines(ss) puts in the file
Flatten(ss) == IF ss = <<>> THEN <<>> ELSE Head(ss) \o Flatten(Tail(ss))

RECURSIVE ReadLines(_)
\* fh.readlines() on a file's content: every line keeps its "\n", the last
\* line has none when the content does not end in one
ReadLines(content) ==
    LET nls == {i \in 1..Len(content) : content[i] = NL} IN
    IF content = <<>> THEN <<>>
    ELSE IF nls # {}
         THEN LET k == CHOOSE i \in nls : \A j \in nls : i <= j
              IN  <<SubSeq(content, 1, k)>>
                    \o ReadLines(SubSeq(content, k+1, Len(content)))
         ELSE <<content>>

\* the lines of a file without their line terminators
FileLines(content) ==
    LET ls == ReadLines(content) IN [i \in 1..Len(ls) |-> RStripNL(ls[i])]


\* Python values

\* None
None == <<"None">>
\* no file at the path
NoFile == <<"NoFile">>
\* no chain id: desired_chain=None, lig_chain before it is assigned
NoChain == ""

\* before a function is called

\* the splitter is not running
AltIdle == altPc = "idle" /\ poses3 = <<>> /\ posesApi = <<>>

PipeIdle ==
    /\ plPc = "idle" /\ plTotal = 0 /\ plIdx = 0 /\ plStage = "none"
    /\ pose_results = <<>> /\ pose_folders = <<>>

NoPid == 0

DockIdle ==
    /\ jobStatus = "absent" /\ progress = 0 /\ jobPid = NoPid
    /\ canceled = FALSE /\ rnPc = "none" /\ procState = "none"
    /\ returncode = 0 /\ signalled = FALSE /\ lines_read = 0
    /\ ckPc = "idle" /\ ckPid = NoPid /\ nCancel = 0

CkptIdle ==
    /\ cpPc = "idle" /\ ckptFile = <<>> /\ ckptAtStart = <<>>
    /\ completed = {} /\ tkPc = <<>> /\ tkRc = <<>> /\ tkOut = <<>>
    /\ vinaStarted = {} /\ runNo = 0

SplitIdle ==
    /\ spPc = "idle"
    /\ srcHeader = 0 /\ srcBlocks = <<>> /\ srcFinalNL = TRUE
    /\ lines = <<>> /\ spI = 1
    /\ current = <<>> /\ header = <<>> /\ model_idx = 0
    /\ in_model = FALSE /\ saw_model = FALSE /\ produced = <<>>

SanIdle == sanPc = "idle" /\ sanLine = <<>> /\ sanResult = None

CleanIdle ==
    /\ clPc = "idle" /\ clIn = <<>> /\ clI = 1 /\ cleaned_lines = <<>>
    /\ cl_in_model = FALSE /\ clStatus = "running" /\ clOut = NoFile
    /\ clFirst = NoFile

MergeIdle ==
    /\ mgPc = "idle" /\ recFile = <<>> /\ ligFile = <<>> /\ mgPreferred = "L"
    /\ lig_chain = NoChain /\ mgStatus = "running" /\ mgOut = NoFile

\* float(): the number a coordinate field denotes

DigitVal(c) == (CHOOSE i \in 1..10 : Digits[i] = c) - 1

IsDigit(c) == \E i \in 1..10 : Digits[i] = c

RECURSIVE NatOf(_)
\* value of a sequence of decimal digits
NatOf(ds) ==
    IF ds = <<>> THEN 0
    ELSE 10 * NatOf(SubSeq(ds, 1, Len(ds) - 1)) + DigitVal(ds[Len(ds)])

RECURSIVE Pow10(_)
Pow10(n) == IF n = 0 THEN 1 ELSE 10 * Pow10(n - 1)

wINF      == <<"I","N","F">>
wINFINITY == <<"I","N","F","I","N","I","T","Y">>
wNAN      == <<"N","A","N">>

\* float(s) for s made of a sign, digits, one decimal point and the words
\* inf, infinity, nan: [ok] FALSE is ValueError; a number is
\* sign * num / den
ParseFloat(s) ==
    LET signed == s # <<>> /\ s[1] \in {"+", "-"}
        neg    == s # <<>> /\ s[1] = "-"
        body   == IF signed THEN Tail(s) ELSE s
        dots   == {i \in 1..Len(body) : body[i] = "."}
        fail   == [ok |-> FALSE, kind |-> "error", neg |-> FALSE,
                   num |-> 0, den |-> 1]
    IN  IF Upper(body) \in {wINF, wINFINITY}
        THEN [ok |-> TRUE, kind |-> "inf", neg |-> neg, num |-> 0, den |-> 1]
        ELSE IF Upper(body) = wNAN
        THEN [ok |-> TRUE, kind |-> "nan", neg |-> neg, num |-> 0, den |-> 1]
        ELSE IF \/ Cardinality(dots) > 1
                \/ \E i \in 1..Len(body) : ~IsDigit(body[i]) /\ body[i] # "."
                \/ ~\E i \in 1..Len(body) : IsDigit(body[i])
        THEN fail
        ELSE LET digs == SelectSeq(body, IsDigit)
                 frac == IF dots = {} THEN 0
                         ELSE Len(body) - (CHOOSE i \in dots : TRUE)
             IN  [ok |-> TRUE, kind |-> "num", neg |-> neg,
                  num |-> NatOf(digs), den |-> Pow10(frac)]

\* math.isnan(v) or math.isinf(v)
IsNanOrInf(v) == v.kind \in {"nan", "inf"}

\* the comparison of line 634 with only the x coordinate tested
AbsExceedsFirstOnly(v, bound, axis) == axis = 1 /\ v.num > bound * v.den

\* abs(v) > bound, for coordinate number axis (1 = x, 2 = y, 3 = z)
AbsExceeds(v, bound, axis) == v.num > bound * v.den

\* line[a:b] of Python, 0-based and end-exclusive, cut at the end of line
Slice(line, a, b) ==
    SubSeq(line, a + 1, IF b < Len(line) THEN b ELSE Len(line))

\* float(line[30:38].strip()), float(line[38:46].strip()),
\* float(line[46:54].strip())
Coords(line) ==
    <<ParseFloat(Strip(Slice(line, 30, 38))),
      ParseFloat(Strip(Slice(line, 38, 46))),
      ParseFloat(Strip(Slice(line, 46, 54)))>>

\* a sanitizer that pads the line it accepts to 80 columns
sanitize_coordinates_padding(line) ==
    IF ~IsAtomLine(line) THEN line
    ELSE IF Len(line) < 55 THEN None
    ELSE LET c == Coords(line) IN
         IF \E a \in 1..3 : ~c[a].ok THEN None
         ELSE IF \E a \in 1..3 : IsNanOrInf(c[a]) THEN None
         ELSE IF \E a \in 1..3 : AbsExceeds(c[a], 500, a) THEN None
         ELSE LJust(line, 80)

sanitize_coordinates(line) ==
    IF ~IsAtomLine(line) THEN line
    ELSE IF Len(line) < 55 THEN None
    ELSE LET c == Coords(line) IN
         IF \E a \in 1..3 : ~c[a].ok THEN None
         ELSE IF \E a \in 1..3 : IsNanOrInf(c[a]) THEN None
         ELSE IF \E a \in 1..3 : AbsExceeds(c[a], 500, a) THEN None
         ELSE line

\* Atom lines in the fixed columns of the PDB format

Blanks(n) == [i \in 1..n |-> SP]

recATOM   == <<"A","T","O","M"," "," ">>
recHETATM == kwHETATM
recREMARK == kwREMARK

\* columns 1-6 record type, 7-11 serial, 13-16 atom name, 18-20 residue
\* name, 22 chain, 23-26 residue number, 27 insertion code, 31-38 x,
\* 39-46 y, 47-54 z, then the rest of the line
AtomLine(rec, serial, chain, x, y, z, rest) ==
    rec \o Blanks(4) \o <<serial>> \o <<SP, SP, "C", "1", SP, SP>>
        \o <<"L","I","G">> \o <<SP, chain>> \o <<SP, SP, SP, "1">>
        \o Blanks(4) \o x \o y \o z \o rest

\* coordinate fields, 8 columns each
f10      == <<SP,SP,"1","0",".","0","0","0">>
f500     == <<SP,"5","0","0",".","0","0","0">>
fMinus500 == <<"-","5","0","0",".","0","0","0">>
fOver    == <<SP,"5","0","0",".","0","0","1">>
fBig     == <<"9","9","9","9",".","9","9","9">>
fMinusBig == <<"-","9","9","9",".","9","9","9">>
fNan     == <<SP,SP,SP,SP,SP,"n","a","n">>
fInf     == <<SP,SP,SP,SP,"-","i","n","f">>
fJunk    == <<SP,SP,"1","x",".","0","0","0">>
fBlank   == Blanks(8)

CoordFields ==
    {f10, f500, fMinus500, fOver, fBig, fMinusBig, fNan, fInf, fJunk, fBlank}

\* the columns after the z field: occupancy
Rest(n) == SubSeq(<<SP, SP, "1", ".", "0", "0">>, 1, n)

\* sanitize_coordinates: the call

\* lengths a line is cut to: inside the x field, before the chain column
CutLengths == {20, 34}

SanLines ==
    LET full == {AtomLine(rec, "1", "A", x, y, z, Rest(n)) :
                    rec \in {recATOM, recHETATM, recREMARK},
                    x \in CoordFields, y \in CoordFields,
                    z \in CoordFields, n \in 0..MaxTail}
    IN  full \cup {SubSeq(AtomLine(rec, "1", "A", f10, f10, f10, <<>>), 1, n) :
                    rec \in {recATOM, recHETATM, recREMARK}, n \in CutLengths}

SanStart == sanPc = "call" /\ sanLine \in SanLines /\ sanResult = None

SanitizeCall ==
    /\ sanPc = "call"
    /\ sanResult' = sanitize_coordinates(sanLine)
    /\ sanPc' = "done"
    /\ UNCHANGED sanLine
    /\ UNCHANGED notSan

SanNext == SanitizeCall

\* split_pdbqt_models: the source file

\* a header line of the source file
HeaderLine(j) ==
    IF j = 1 THEN kwREMARK \o <<SP, "h", Digits[j+1], NL>>
    ELSE kwATOM \o <<SP, "0", Digits[j+1], NL>>

\* the MODEL line of block k: "MODEL k" or, for even k, "  model k"
ModelLine(k) ==
    IF k % 2 = 1 THEN kwMODEL \o <<SP, Digits[k+1], NL>>
    ELSE <<SP, SP, "m","o","d","e","l", SP, Digits[k+1], NL>>

\* body line j of block k
BodyLine(k, j) == kwATOM \o <<SP, Digits[k+1], Digits[j+1], NL>>

\* the ENDMDL line of block k: "ENDMDL" or, for even k, " endmdl"
EndmdlLine(k) ==
    IF k % 2 = 1 THEN kwENDMDL \o <<NL>>
    ELSE <<SP, "e","n","d","m","d","l", NL>>

\* a line between the ENDMDL of block k and the next MODEL
StrayLine(k, j) == kwREMARK \o <<SP, "s", Digits[k+1], Digits[j+1], NL>>

\* shape of one MODEL block: number of body lines, whether it has its
\* ENDMDL, number of lines after it
BlockShapes ==
    {b \in [body : 0..MaxBody, term : BOOLEAN, stray : 0..MaxStray] :
        ~b.term => b.stray = 0}

Body(k, b)   == [j \in 1..b.body |-> BodyLine(k, j)]
Strays(k, b) == [j \in 1..b.stray |-> StrayLine(k, j)]

BlockLines(k, b) ==
    <<ModelLine(k)>> \o Body(k, b)
      \o (IF b.term THEN <<EndmdlLine(k)>> ELSE <<>>) \o Strays(k, b)

HeaderLines(h) == [j \in 1..h |-> HeaderLine(j)]

\* the source file, as readlines() returns it
SourceLines(h, bs, nl) ==
    LET all == HeaderLines(h)
                 \o Flatten([k \in 1..Len(bs) |-> BlockLines(k, bs[k])])
    IN  IF nl \/ all = <<>> THEN all
        ELSE [i \in 1..Len(all) |->
                IF i = Len(all) THEN RStripNL(all[i]) ELSE all[i]]

BlockSeqs == UNION {[1..n -> BlockShapes] : n \in 0..MaxBlocks}

\* split_pdbqt_models

SplitStart ==
    /\ spPc = "loop"
    /\ srcHeader \in 0..MaxHeader
    /\ srcBlocks \in BlockSeqs
    /\ srcFinalNL \in BOOLEAN
    /\ lines = SourceLines(srcHeader, srcBlocks, srcFinalNL)
    /\ spI = 1
    /\ current = <<>>
    /\ header = <<>>
    /\ model_idx = 0
    /\ in_model = FALSE
    /\ saw_model = FALSE
    /\ produced = <<>>

\* the pose file written when a model is flushed
PoseContent(hdr, cur) == Flatten(hdr \o cur \o <<kwENDMDL \o <<NL>>>>)

\* u = ln.strip().upper()
U(ln) == Upper(Strip(ln))

\* a flush for every model, whether or not it has body lines
FlushEveryModel == in_model

\* "if in_model and current:" at a MODEL line, an ENDMDL line, the end
FlushNeeded == in_model /\ current # <<>>

\* a flush that forgets to start a new body
FlushKeepsBody ==
    /\ model_idx' = model_idx + 1
    /\ produced' = Append(produced,
                     [idx |-> model_idx + 1,
                      content |-> PoseContent(header, current)])
    /\ current' = current

Flush ==
    /\ model_idx' = model_idx + 1
    /\ produced' = Append(produced,
                     [idx |-> model_idx + 1,
                      content |-> PoseContent(header, current)])
    /\ current' = <<>>

NoFlush == UNCHANGED <<model_idx, produced, current>>

SplitModelLine ==
    /\ spPc = "loop" /\ spI <= Len(lines)
    /\ StartsWith(U(lines[spI]), kwMODEL)
    /\ IF FlushNeeded THEN Flush ELSE NoFlush
    /\ in_model' = TRUE
    /\ saw_model' = TRUE
    /\ spI' = spI + 1
    /\ UNCHANGED <<spPc, srcHeader, srcBlocks, srcFinalNL, lines, header>>
    /\ UNCHANGED notSplit

SplitEndmdlLine ==
    /\ spPc = "loop" /\ spI <= Len(lines)
    /\ ~StartsWith(U(lines[spI]), kwMODEL)
    /\ StartsWith(U(lines[spI]), kwENDMDL)
    /\ IF FlushNeeded THEN Flush ELSE NoFlush
    /\ in_model' = FALSE
    /\ spI' = spI + 1
    /\ UNCHANGED <<spPc, srcHeader, srcBlocks, srcFinalNL, lines, header,
                   saw_model>>
    /\ UNCHANGED notSplit

SplitOtherLine ==
    /\ spPc = "loop" /\ spI <= Len(lines)
    /\ ~StartsWith(U(lines[spI]), kwMODEL)
    /\ ~StartsWith(U(lines[spI]), kwENDMDL)
    /\ IF ~saw_model
       THEN /\ header' = Append(header, lines[spI])
            /\ UNCHANGED current
       ELSE /\ current' = IF in_model THEN Append(current, lines[spI])
                          ELSE current
            /\ UNCHANGED header
    /\ spI' = spI + 1
    /\ UNCHANGED <<spPc, srcHeader, srcBlocks, srcFinalNL, lines, model_idx,
                   in_model, saw_model, produced>>
    /\ UNCHANGED notSplit

\* the fallback returning no pose
SinglePoseNone(ls) == <<>>

\* the fallback writing the lines as a flushed model, closed by ENDMDL
SinglePoseTerminated(ls) == <<[idx |-> 1, content |-> PoseContent(ls, <<>>)]>>

\* shutil.copyfile(src_pdbqt, single); produced = [single]
SinglePose(ls) == <<[idx |-> 1, content |-> Flatten(ls)]>>

\* after the loop: "last model", then "no MODEL -> single pose"
SplitFinish ==
    /\ spPc = "loop" /\ spI > Len(lines)
    /\ LET afterLast ==
             IF FlushNeeded
             THEN Append(produced, [idx |-> model_idx + 1,
                                    content |-> PoseContent(header, current)])
             ELSE produced
       IN  /\ produced' = IF afterLast = <<>>
                          THEN SinglePose(lines)
                          ELSE afterLast
           /\ model_idx' = IF FlushNeeded THEN model_idx + 1 ELSE model_idx
    /\ spPc' = "done"
    /\ UNCHANGED <<srcHeader, srcBlocks, srcFinalNL, lines, spI, current,
                   header, in_model, saw_model>>
    /\ UNCHANGED notSplit

SplitNext ==
    \/ SplitModelLine
    \/ SplitEndmdlLine
    \/ SplitOtherLine
    \/ SplitFinish

SplitInit == SplitStart /\ SanIdle /\ CleanIdle /\ MergeIdle /\ AltIdle /\ PipeIdle /\ DockIdle /\ CkptIdle

SpecSplit == SplitInit /\ [][SplitNext]_vars

\* split_pdbqt of the analysis3 script template

\* a pose file numbered n that holds the lines ls
PoseFile(n, ls) == [idx |-> n, content |-> Flatten(ls)]

RECURSIVE split_pdbqt_loop(_, _, _, _)
\* the for-loop of split_pdbqt from line i on: cur and poses as they stand
split_pdbqt_loop(ls, i, cur, poses) ==
    IF i > Len(ls) THEN poses
    ELSE LET ln == ls[i]
             up == Upper(Strip(ln))
         IN  IF StartsWith(up, kwMODEL)
             THEN split_pdbqt_loop(ls, i + 1, <<ln>>, poses)
             ELSE IF StartsWith(up, kwENDMDL)
             THEN split_pdbqt_loop(ls, i + 1, <<>>,
                      Append(poses, PoseFile(Len(poses) + 1, Append(cur, ln))))
             ELSE IF cur # <<>>
             THEN split_pdbqt_loop(ls, i + 1, Append(cur, ln), poses)
             ELSE split_pdbqt_loop(ls, i + 1, cur, poses)

\* if not poses: shutil.copy(src, pose_1)
split_pdbqt(ls) ==
    LET poses == split_pdbqt_loop(ls, 1, <<>>, <<>>) IN
    IF poses = <<>> THEN <<PoseFile(1, ls)>> ELSE poses

\* split_pdbqt_models of the api/analysis script template

RECURSIVE api_split_loop(_, _, _, _)
\* the for-loop from line i on; returns the poses and the model left over
api_split_loop(ls, i, model, poses) ==
    IF i > Len(ls) THEN [poses |-> poses, model |-> model]
    ELSE LET line == ls[i]
             m == Append(IF StartsWith(line, kwMODEL) THEN <<>> ELSE model, line)
         IN  IF StartsWith(line, kwENDMDL)
             THEN api_split_loop(ls, i + 1, <<>>,
                      Append(poses, PoseFile(Len(poses) + 1, m)))
             ELSE api_split_loop(ls, i + 1, m, poses)

\* if model: the lines left over are written as one more pose
api_split_pdbqt_models(ls) ==
    LET r == api_split_loop(ls, 1, <<>>, <<>>) IN
    IF r.model # <<>>
    THEN Append(r.poses, PoseFile(Len(r.poses) + 1, r.model))
    ELSE r.poses

\* the three splitters run on the same source file

AltStart == altPc = "wait" /\ poses3 = <<>> /\ posesApi = <<>>

RunSplitPdbqt ==
    /\ altPc = "wait" /\ spPc = "done"
    /\ poses3' = split_pdbqt(lines)
    /\ altPc' = "third"
    /\ UNCHANGED <<posesApi, notAlt>>

RunApiSplit ==
    /\ altPc = "third"
    /\ posesApi' = api_split_pdbqt_models(lines)
    /\ altPc' = "both"
    /\ UNCHANGED <<poses3, notAlt>>

SplittersNext == SplitNext \/ RunSplitPdbqt \/ RunApiSplit

SplittersInit ==
    SplitStart /\ AltStart /\ SanIdle /\ CleanIdle /\ MergeIdle /\ PipeIdle
      /\ DockIdle /\ CkptIdle

SpecSplitters == SplittersInit /\ [][SplittersNext]_vars

\* the source is header lines followed by N >= 1 complete blocks
\* MODEL / body lines / ENDMDL with nothing between the blocks
CompleteBlocks ==
    /\ Len(srcBlocks) >= 1
    /\ \A k \in 1..Len(srcBlocks) :
          srcBlocks[k].body >= 1 /\ srcBlocks[k].term /\ srcBlocks[k].stray = 0

\* C3: for a source of header lines and N >= 1 complete blocks the splitter
\* returns exactly N poses, numbered 1..N in block order, and pose k is the
\* header followed by the body of block k (closed by ENDMDL) and nothing else
C3_SplitCount ==
    (spPc = "done" /\ CompleteBlocks) =>
        /\ Len(produced) = Len(srcBlocks)
        /\ \A k \in 1..Len(produced) :
              /\ produced[k].idx = k
              /\ produced[k].content =
                    Flatten(HeaderLines(srcHeader) \o Body(k, srcBlocks[k])
                              \o <<kwENDMDL \o <<NL>>>>)

C3_Witness ==
    /\ spPc = "done" /\ CompleteBlocks
    /\ srcHeader = 1 /\ Len(srcBlocks) = 2 /\ Len(produced) = 2
    /\ srcBlocks[1].body = 2

\* the lines pose file p should hold for block k
ExpectedPoseLines(k) ==
    FileLines(Flatten(HeaderLines(srcHeader) \o Body(k, srcBlocks[k])))
      \o <<kwENDMDL>>

\* C4: a model with body lines and no ENDMDL (the next MODEL or the end of
\* the input comes first) is emitted as a pose of its own that holds the
\* header, all its body lines and a closing ENDMDL line
C4_UnterminatedFlushed ==
    spPc = "done" =>
        \A k \in 1..Len(srcBlocks) :
            (srcBlocks[k].body >= 1 /\ ~srcBlocks[k].term) =>
                \E n \in 1..Len(produced) :
                    FileLines(produced[n].content) = ExpectedPoseLines(k)

SanInit == SanStart /\ SplitIdle /\ CleanIdle /\ MergeIdle /\ AltIdle /\ PipeIdle /\ DockIdle /\ CkptIdle

SpecSan == SanInit /\ [][SanNext]_vars

\* minimal_clean_pdb: the input file

clAtomA   == AtomLine(recATOM, "1", "A", f10, f10, f10, Rest(2)) \o <<NL>>
clHetEdge == AtomLine(recHETATM, "1", "L", f500, fMinus500, f10, Rest(2))
                \o <<NL>>
clAtomBig == AtomLine(recATOM, "2", "A", f10, fBig, f10, Rest(2)) \o <<NL>>
clModel   == kwMODEL \o <<SP, "1", NL>>
clEndmdl  == <<SP, "e","n","d","m","d","l", NL>>
clConect  == kwCONECT \o <<SP, "1", SP, "2", NL>>
clEnd     == kwEND \o <<NL>>
clBlank   == <<SP, NL>>

CleanPool ==
    {clAtomA, clHetEdge, clAtomBig, clModel, clEndmdl, clConect, clEnd,
     clBlank}

CleanFiles == UNION {[1..n -> CleanPool] : n \in 0..MaxCleanLines}

\* minimal_clean_pdb

CleanStart ==
    /\ clPc = "loop"
    /\ clIn \in CleanFiles
    /\ clI = 1
    /\ cleaned_lines = <<>>
    /\ cl_in_model = FALSE
    /\ clStatus = "running"
    /\ clOut = NoFile
    /\ clFirst = NoFile

\* line = raw.rstrip("\n")
ClLine == RStripNL(clIn[clI])

\* the if-chain of the loop body without the CONECT test
CleanBranchKeepsConect(line, inm) ==
    LET up == Upper(Strip(line)) IN
    IF StartsWith(up, kwMODEL) THEN "model"
    ELSE IF StartsWith(up, kwENDMDL) THEN "endmdl"
    ELSE IF inm THEN "wrapped"
    ELSE IF sanitize_coordinates(line) = None THEN "rejected"
    ELSE "keep"

\* the if-chain of the loop body without "if in_model: continue"
CleanBranchNoSkip(line, inm) ==
    LET up == Upper(Strip(line)) IN
    IF StartsWith(up, kwMODEL) THEN "model"
    ELSE IF StartsWith(up, kwENDMDL) THEN "endmdl"
    ELSE IF StartsWith(up, kwCONECT) THEN "conect"
    ELSE IF sanitize_coordinates(line) = None THEN "rejected"
    ELSE "keep"

\* the if-chain of the loop body: which branch handles the line
CleanBranch(line, inm) ==
    LET up == Upper(Strip(line)) IN
    IF StartsWith(up, kwMODEL) THEN "model"
    ELSE IF StartsWith(up, kwENDMDL) THEN "endmdl"
    ELSE IF inm THEN "wrapped"
    ELSE IF StartsWith(up, kwCONECT) THEN "conect"
    ELSE IF sanitize_coordinates(line) = None THEN "rejected"
    ELSE "keep"

AtLine(branch) ==
    /\ clPc = "loop" /\ clI <= Len(clIn)
    /\ CleanBranch(ClLine, cl_in_model) = branch
    /\ clI' = clI + 1
    /\ UNCHANGED <<clPc, clIn, clStatus, clOut>>
    /\ UNCHANGED <<notClean, clFirst>>

CleanModelLine ==
    /\ AtLine("model")
    /\ cl_in_model' = TRUE
    /\ UNCHANGED cleaned_lines

CleanEndmdlLine ==
    /\ AtLine("endmdl")
    /\ cl_in_model' = FALSE
    /\ UNCHANGED cleaned_lines

CleanWrappedLine ==
    /\ AtLine("wrapped")
    /\ UNCHANGED <<cl_in_model, cleaned_lines>>

CleanConectLine ==
    /\ AtLine("conect")
    /\ UNCHANGED <<cl_in_model, cleaned_lines>>

CleanRejectedLine ==
    /\ AtLine("rejected")
    /\ UNCHANGED <<cl_in_model, cleaned_lines>>

\* the line with columns 7-11 set to serial number n (n < 10)
SetSerial(line, n) ==
    SubSeq(line, 1, 6) \o Blanks(4) \o <<Digits[n + 1]>>
      \o SubSeq(line, 12, Len(line))

\* an append that numbers the atom lines 1, 2, ... as it keeps them
AppendRenumbered(cl, fixed) ==
    IF IsAtomLine(fixed)
    THEN Append(cl, SetSerial(fixed,
                  Cardinality({i \in 1..Len(cl) : IsAtomLine(cl[i])}) + 1))
    ELSE Append(cl, fixed)

\* cleaned_lines.append(fixed)
AppendFixed(cl, fixed) == Append(cl, fixed)

CleanKeepLine ==
    /\ AtLine("keep")
    /\ cleaned_lines' = AppendFixed(cleaned_lines, sanitize_coordinates(ClLine))
    /\ UNCHANGED cl_in_model

\* no trailing line is popped
PopBlankNone(cl) == cl

RECURSIVE PopBlank(_)
\* while cleaned_lines and cleaned_lines[-1].strip() == "": pop()
PopBlank(cl) ==
    IF cl # <<>> /\ Strip(cl[Len(cl)]) = <<>>
    THEN PopBlank(SubSeq(cl, 1, Len(cl) - 1))
    ELSE cl

\* the test of line 693 reduced to "some line remains"
AnyLine(cl) == cl # <<>>

\* any(l.startswith("ATOM") or l.startswith("HETATM") for l in cleaned_lines)
AnyAtom(cl) == \E i \in 1..Len(cl) : IsAtomLine(cl[i])

\* END appended whatever the last line is
EnsureEndAlways(cl) == Append(cl, kwEND)

\* if not cleaned_lines[-1].upper().startswith("END"): append("END")
EnsureEnd(cl) ==
    IF StartsWith(Upper(cl[Len(cl)]), kwEND) THEN cl ELSE Append(cl, kwEND)

\* for ln in cleaned_lines: wf.write(ln + "\n")
WriteLines(cl) == Flatten([i \in 1..Len(cl) |-> cl[i] \o <<NL>>])

\* the loop is over and no atom line remains: RuntimeError, nothing written
CleanFinishRaise ==
    /\ clPc = "loop" /\ clI > Len(clIn)
    /\ ~AnyAtom(PopBlank(cleaned_lines))
    /\ cleaned_lines' = PopBlank(cleaned_lines)
    /\ clStatus' = "error"
    /\ clPc' = "done"
    /\ UNCHANGED <<clIn, clI, cl_in_model, clOut>>
    /\ UNCHANGED <<notClean, clFirst>>

\* the loop is over and an atom line remains: the output file is written
CleanFinishWrite ==
    /\ clPc = "loop" /\ clI > Len(clIn)
    /\ AnyAtom(PopBlank(cleaned_lines))
    /\ cleaned_lines' = EnsureEnd(PopBlank(cleaned_lines))
    /\ clOut' = WriteLines(EnsureEnd(PopBlank(cleaned_lines)))
    /\ clStatus' = "ok"
    /\ clPc' = "done"
    /\ UNCHANGED <<clIn, clI, cl_in_model>>
    /\ UNCHANGED <<notClean, clFirst>>

CleanNext ==
    \/ CleanModelLine
    \/ CleanEndmdlLine
    \/ CleanWrappedLine
    \/ CleanConectLine
    \/ CleanRejectedLine
    \/ CleanKeepLine
    \/ CleanFinishRaise
    \/ CleanFinishWrite

CleanInit == CleanStart /\ SplitIdle /\ SanIdle /\ MergeIdle /\ AltIdle /\ PipeIdle /\ DockIdle /\ CkptIdle

SpecClean == CleanInit /\ [][CleanNext]_vars

\* minimal_clean_pdb called on the file it has written: in_pdb is the first
\* output, out_path a new file
CleanAgain ==
    /\ clPc = "done" /\ clStatus = "ok" /\ clFirst = NoFile
    /\ clFirst' = clOut
    /\ clIn' = ReadLines(clOut)
    /\ clI' = 1
    /\ cleaned_lines' = <<>>
    /\ cl_in_model' = FALSE
    /\ clStatus' = "running"
    /\ clOut' = NoFile
    /\ clPc' = "loop"
    /\ UNCHANGED notClean

RecleanNext == CleanNext \/ CleanAgain

SpecReclean == CleanInit /\ [][RecleanNext]_vars

\* Properties of sanitize_coordinates

\* the field parses as a finite number of absolute value <= 500
FieldInBound(f) ==
    LET v == ParseFloat(Strip(f))
    IN  v.ok /\ v.kind = "num" /\ v.num <= 500 * v.den

\* the coordinate columns 31-38, 39-46, 47-54 of a line
CoordColumns(line) ==
    <<Slice(line, 30, 38), Slice(line, 38, 46), Slice(line, 46, 54)>>

AllInBound(line) == \A a \in 1..3 : FieldInBound(CoordColumns(line)[a])

\* C8: sanitize_coordinates returns a line or None for every string, and
\* returns the line for every ATOM/HETATM line that reaches column 54 and has
\* three finite coordinates within +/-500
C8_SanitizeComplete ==
    sanPc = "done" =>
        /\ sanResult \in {None, sanLine}
        /\ (IsAtomLine(sanLine) /\ Len(sanLine) >= 54 /\ AllInBound(sanLine))
              => sanResult = sanLine

\* C9: sanitize_coordinates returns a line that is not ATOM/HETATM unchanged,
\* returns None for an ATOM/HETATM line with a coordinate field that does not
\* parse, is NaN or infinite, or exceeds 500 in absolute value, and returns
\* nothing but None or the line it was given
C9_SanitizeVerdict ==
    sanPc = "done" =>
        /\ sanResult \in {None, sanLine}
        /\ ~IsAtomLine(sanLine) => sanResult = sanLine
        /\ (IsAtomLine(sanLine) /\ ~AllInBound(sanLine)) => sanResult = None

C9_Witness ==
    /\ sanPc = "done" /\ sanResult = None
    /\ IsAtomLine(sanLine) /\ Len(sanLine) >= 55
    /\ FieldInBound(CoordColumns(sanLine)[1])
    /\ FieldInBound(CoordColumns(sanLine)[2])
    /\ CoordColumns(sanLine)[3] = fOver

\* Properties of minimal_clean_pdb

\* line i of the input file
InLine(i) == RStripNL(clIn[i])

IsModelMark(l)  == StartsWith(Upper(Strip(l)), kwMODEL)
IsEndmdlMark(l) == ~IsModelMark(l) /\ StartsWith(Upper(Strip(l)), kwENDMDL)
IsConectMark(l) == StartsWith(Upper(Strip(l)), kwCONECT)

\* line i lies between a MODEL line and the next ENDMDL line
Wrapped(i) ==
    /\ ~IsModelMark(InLine(i)) /\ ~IsEndmdlMark(InLine(i))
    /\ \E j \in 1..(i-1) :
          /\ IsModelMark(InLine(j))
          /\ \A k \in (j+1)..(i-1) : ~IsEndmdlMark(InLine(k))

\* line i lies outside every MODEL block and is not a delimiter
Outside(i) ==
    ~IsModelMark(InLine(i)) /\ ~IsEndmdlMark(InLine(i)) /\ ~Wrapped(i)

\* the line passes coordinate sanitization
Passes(l) == ~IsAtomLine(l) \/ (Len(l) >= 55 /\ AllInBound(l))

RECURSIVE PickFrom(_, _, _)
\* the elements of ls at the indices >= i where mask is TRUE, in order
PickFrom(ls, mask, i) ==
    IF i > Len(ls) THEN <<>>
    ELSE (IF mask[i] THEN <<ls[i]>> ELSE <<>>) \o PickFrom(ls, mask, i + 1)

InLines == [i \in 1..Len(clIn) |-> InLine(i)]

\* the input lines outside MODEL blocks that pass sanitization, CONECT
\* lines left out
OutsideKept ==
    PickFrom(InLines,
             [i \in 1..Len(clIn) |->
                Outside(i) /\ ~IsConectMark(InLine(i)) /\ Passes(InLine(i))],
             1)

AtomsOf(ls) == SelectSeq(ls, IsAtomLine)

\* C5 as stated: the cleaner fails iff no atom line of the input passes
\* coordinate sanitization, and writes no file when it fails
C5_FailsIffNoneSurvive ==
    clPc = "done" =>
        /\ clStatus = "error" <=>
              ~\E i \in 1..Len(clIn) :
                  IsAtomLine(InLine(i)) /\ Passes(InLine(i))
        /\ clStatus = "error" => clOut = NoFile

\* C5 amended: the cleaner fails iff no atom line outside the MODEL blocks
\* of the input passes coordinate sanitization; it writes no file when it
\* fails and writes one when it does not
C5_FailsIffNoneSurviveOutside ==
    clPc = "done" =>
        /\ clStatus = "error" <=>
              ~\E i \in 1..Len(clIn) :
                  Outside(i) /\ IsAtomLine(InLine(i)) /\ Passes(InLine(i))
        /\ clStatus = "error" => clOut = NoFile
        /\ clStatus = "ok" => clOut # NoFile

C5_Witness ==
    /\ clPc = "done" /\ clStatus = "error" /\ clOut = NoFile
    /\ \E i \in 1..Len(clIn) :
          Outside(i) /\ IsAtomLine(InLine(i)) /\ ~Passes(InLine(i))
    /\ \E i \in 1..Len(clIn) :
          Wrapped(i) /\ IsAtomLine(InLine(i)) /\ Passes(InLine(i))

\* the input lines other than MODEL and ENDMDL lines that pass sanitization,
\* CONECT lines left out: the lines outside the blocks and the wrapped ones
AllKept ==
    PickFrom(InLines,
             [i \in 1..Len(clIn) |->
                /\ ~IsModelMark(InLine(i)) /\ ~IsEndmdlMark(InLine(i))
                /\ ~IsConectMark(InLine(i)) /\ Passes(InLine(i))],
             1)

\* C6 as stated: the cleaner drops only the MODEL and ENDMDL lines; every
\* line that was wrapped between them and passes sanitization is kept at top
\* level, so the cleaned output is all other lines that pass sanitization
\* (CONECT lines left out), without trailing blank lines and closed by END
C6_WrappedKept ==
    (clPc = "done" /\ AtomsOf(AllKept) # <<>>) =>
        /\ clStatus = "ok"
        /\ LET out  == FileLines(clOut)
               kept == AllKept
           IN  \E n \in 0..Len(kept) :
                   /\ \A k \in (n+1)..Len(kept) : Strip(kept[k]) = <<>>
                   /\ \/ out = SubSeq(kept, 1, n)
                      \/ out = Append(SubSeq(kept, 1, n), kwEND)

\* C6 amended: the cleaner drops the MODEL and ENDMDL lines and every line
\* between a MODEL and the next ENDMDL; the cleaned output is the lines
\* outside the blocks that pass sanitization (CONECT lines left out), without
\* their trailing blank lines and closed by END
C6_WrappedDropped ==
    (clPc = "done" /\ clStatus = "ok") =>
        LET out  == FileLines(clOut)
            kept == OutsideKept
        IN  \E n \in 0..Len(kept) :
                /\ \A k \in (n+1)..Len(kept) : Strip(kept[k]) = <<>>
                /\ \/ out = SubSeq(kept, 1, n)
                   \/ out = Append(SubSeq(kept, 1, n), kwEND)

C6_Witness ==
    /\ clPc = "done" /\ clStatus = "ok"
    /\ \E i \in 1..Len(clIn) :
          Wrapped(i) /\ IsAtomLine(InLine(i)) /\ Passes(InLine(i))
    /\ Len(AtomsOf(FileLines(clOut))) = 1

\* C7: every ATOM/HETATM line of a cleaned file has three coordinate fields
\* that parse as finite numbers of absolute value <= 500, and an atom line
\* outside the MODEL blocks whose coordinates are exactly 500.0 and -500.0
\* is in the cleaned file
C7_CoordinateBound ==
    /\ clOut # NoFile =>
          LET out == FileLines(clOut) IN
          \A n \in 1..Len(out) :
              IsAtomLine(out[n]) => Len(out[n]) >= 54 /\ AllInBound(out[n])
    /\ clPc = "done" =>
          \A i \in 1..Len(clIn) :
              (Outside(i) /\ clIn[i] = clHetEdge) =>
                  /\ clStatus = "ok"
                  /\ LET out == FileLines(clOut) IN
                     \E n \in 1..Len(out) : out[n] = RStripNL(clHetEdge)

C7_Witness ==
    /\ clPc = "done" /\ clStatus = "ok"
    /\ \E i \in 1..Len(clIn) : clIn[i] = clAtomBig /\ Outside(i)
    /\ LET out == FileLines(clOut) IN
       \E n \in 1..Len(out) : out[n] = RStripNL(clHetEdge)

\* int(line[6:11]): the serial number of an atom line
SerialOf(line) == NatOf(Strip(Slice(line, 6, 11)))

SerialsOf(ls) ==
    LET atoms == AtomsOf(ls) IN [k \in 1..Len(atoms) |-> SerialOf(atoms[k])]

\* C10 as stated: the atom serial numbers of a cleaned file are 1..K in order
C10_SerialsDense ==
    (clPc = "done" /\ clStatus = "ok") =>
        SerialsOf(FileLines(clOut))
          = [k \in 1..Len(AtomsOf(FileLines(clOut))) |-> k]

\* C10 amended: the cleaner does not renumber; the atom lines of a cleaned
\* file carry the serial numbers the surviving atom lines had in the input,
\* in input order
C10_SerialsKept ==
    (clPc = "done" /\ clStatus = "ok") =>
        SerialsOf(FileLines(clOut)) = SerialsOf(OutsideKept)

C10_Witness ==
    /\ clPc = "done" /\ clStatus = "ok"
    /\ SerialsOf(FileLines(clOut)) = <<1, 1>>

\* ensure_ligand_chain_and_hetatm, merge_receptor_and_ligand: the input files

\* a receptor atom line of chain c, cut after the residue number
RecAtom(rec, c) == SubSeq(AtomLine(rec, "1", c, f10, f10, f10, <<>>), 1, 26)

recA     == RecAtom(recATOM, "A") \o <<NL>>
recL     == RecAtom(recHETATM, "L") \o <<NL>>
recShort == SubSeq(RecAtom(recATOM, "A"), 1, 21) \o <<NL>>
recTer   == kwTER \o <<NL>>
recEnd   == kwEND \o <<NL>>

RecPool == {recA, recL, recShort, recTer, recEnd}

\* a receptor with one atom line for every letter of cs
RecWithChains(cs) == [i \in 1..Len(cs) |-> RecAtom(recATOM, cs[i]) \o <<NL>>]

Without(cs, c) == SelectSeq(cs, LAMBDA x : x # c)

\* a receptor that still carries the records of a model file
recWrapped ==
    <<kwMODEL \o <<SP, "1", NL>>, recA, recTer, kwENDMDL \o <<NL>>, recEnd>>

RecFiles ==
    UNION {[1..n -> RecPool] : n \in 0..MaxRecLines}
      \cup {RecWithChains(ascii_uppercase),
            RecWithChains(Without(ascii_uppercase, "L")),
            RecWithChains(Without(ascii_uppercase, "Q")),
            RecWithChains(<<"A", "B">>),
            recWrapped}

ligAtomA  == AtomLine(recATOM, "1", "A", f10, f10, f10, Rest(2)) \o <<NL>>
ligHetNoChain == AtomLine(recHETATM, "2", SP, f10, f10, f10, <<>>) \o <<NL>>
ligShort  == kwATOM \o <<SP, SP, SP, SP, SP, SP, "3", NL>>
ligRemark == kwREMARK \o <<SP, "x", NL>>
ligEnd    == kwEND \o <<NL>>

LigPool == {ligAtomA, ligHetNoChain, ligShort, ligRemark, ligEnd}

\* a converted pose that still carries the records of a model file
ligWrapped ==
    <<kwMODEL \o <<SP, "1", NL>>, ligAtomA, kwTER \o <<NL>>,
      kwENDMDL \o <<NL>>, ligEnd>>

LigFiles == UNION {[1..n -> LigPool] : n \in 0..MaxLigLines} \cup {ligWrapped}

\* ligand_chain_preferred: the default "L", or None
PreferredChains == {"L", NoChain}

\* ensure_ligand_chain_and_hetatm

MergeStart ==
    /\ mgPc = "start"
    /\ recFile \in RecFiles
    /\ ligFile \in LigFiles
    /\ mgPreferred \in PreferredChains
    /\ lig_chain = NoChain
    /\ mgStatus = "running"
    /\ mgOut = NoFile

\* [ln.rstrip("\n") for ln in fh]
StripLines(file) == [i \in 1..Len(file) |-> RStripNL(file[i])]

\* the chain ids of the atom lines of the ligand file itself
existing_chains(ls) ==
    {ls[i][22] : i \in {j \in 1..Len(ls) : IsAtomLine(ls[j]) /\ Len(ls[j]) >= 22}}

\* next((c for c in string.ascii_uppercase if c not in existing), "L")
FirstUnused(used, default) ==
    IF \A i \in 1..26 : ascii_uppercase[i] \in used THEN default
    ELSE ascii_uppercase[CHOOSE i \in 1..26 :
            /\ ascii_uppercase[i] \notin used
            /\ \A j \in 1..(i-1) : ascii_uppercase[j] \in used]

\* the chain ensure_ligand_chain_and_hetatm assigns
EnsureChain(ls, desired) ==
    IF desired # NoChain THEN desired
    ELSE IF "L" \notin existing_chains(ls) THEN "L"
    ELSE FirstUnused(existing_chains(ls), "L")

\* the chain written one column early
SetChainCol21(ln, chain) ==
    SubSeq(ln, 1, 20) \o <<chain>> \o SubSeq(ln, 22, Len(ln))

\* new_ln[:21] + chain + new_ln[22:]
SetChain(ln, chain) == SubSeq(ln, 1, 21) \o <<chain>> \o SubSeq(ln, 23, Len(ln))

\* one line of the ligand as ensure_ligand_chain_and_hetatm rewrites it
EnsureLine(ln, chain) ==
    IF IsAtomLine(ln)
    THEN IF Len(ln) < 22 THEN ln
         ELSE LJust(SetChain(kwHETATM \o SubSeq(ln, 7, Len(ln)), chain), 80)
    ELSE ln

\* wf.write("\n".join(result) + "\n"), read back as lines
JoinedLines(result) ==
    IF result = <<>> THEN <<<<NL>>>>
    ELSE [i \in 1..Len(result) |-> result[i] \o <<NL>>]

\* desired_chain of the pipeline's call ("L") and of its fallback call (None)
DesiredChains == {"L", NoChain}

EnsureLigand ==
    /\ mgPc = "start"
    /\ \E desired \in DesiredChains :
          LET ls == StripLines(ligFile)
              chain == EnsureChain(ls, desired)
          IN  ligFile' = JoinedLines([i \in 1..Len(ls) |->
                                        EnsureLine(ls[i], chain)])
    /\ mgPc' = "ensured"
    /\ UNCHANGED <<recFile, mgPreferred, lig_chain, mgStatus, mgOut>>
    /\ UNCHANGED notMerge

\* merge_receptor_and_ligand

\* read_atoms(path) keeping only the lines that start with ATOM
ReadAtomsOnlyATOM(file) ==
    SelectSeq(StripLines(file), LAMBDA ln : StartsWith(ln, kwATOM))

\* read_atoms(path) without "END" in the prefixes it filters
ReadAtomsKeepsEnd(file) ==
    StripLines(SelectSeq(file, LAMBDA ln :
        ~(StartsWith(ln, kwMODEL) \/ StartsWith(ln, kwENDMDL))))

\* read_atoms(path)
ReadAtoms(file) ==
    StripLines(SelectSeq(file, LAMBDA ln :
        ~(StartsWith(ln, kwMODEL) \/ StartsWith(ln, kwENDMDL)
            \/ StartsWith(ln, kwEND))))

\* receptor_chains, collected from the lines as the file iterator yields them
receptor_chains(file) ==
    {file[i][22] : i \in {j \in 1..Len(file) :
                            IsAtomLine(file[j]) /\ Len(file[j]) > 21}}

\* every letter counted as free
AvailableAll(chains) == ascii_uppercase

\* available = [c for c in string.ascii_uppercase if c not in receptor_chains]
Available(chains) == SelectSeq(ascii_uppercase, LAMBDA c : c \notin chains)

\* always the first free letter
PickChainIgnoresPreferred(preferred, available) == available[1]

\* lig_chain = preferred if preferred in available else available[0]
PickChain(preferred, available) ==
    IF preferred \in Range(available) THEN preferred ELSE available[1]

\* a ligand line written with the record name it came with
MergeLigLineKeepsType(ln, chain) ==
    IF IsAtomLine(ln)
    THEN LJust(IF Len(ln) >= 22 THEN SetChain(ln, chain) ELSE ln, 80)
    ELSE ln

\* one ligand line as the merger writes it
MergeLigLine(ln, chain) ==
    IF IsAtomLine(ln)
    THEN LET new_ln == kwHETATM \o (IF Len(ln) > 6 THEN SubSeq(ln, 7, Len(ln))
                                    ELSE <<>>)
         IN  LJust(IF Len(new_ln) >= 22 THEN SetChain(new_ln, chain)
                   ELSE new_ln, 80)
    ELSE ln

\* available is empty: available[0] raises IndexError, nothing is written
MergeRaise ==
    /\ mgPc \in {"start", "ensured"}
    /\ mgPreferred \notin Range(Available(receptor_chains(recFile)))
    /\ Available(receptor_chains(recFile)) = <<>>
    /\ mgStatus' = "error"
    /\ mgPc' = "done"
    /\ UNCHANGED <<recFile, ligFile, mgPreferred, lig_chain, mgOut>>
    /\ UNCHANGED notMerge

\* the ligand lines written before the receptor lines
MergedLinesLigandFirst(rec, lig) == lig \o <<kwTER>> \o rec \o <<kwEND>>

\* the lines the merger writes: receptor, TER, ligand, END
MergedLines(rec, lig) == rec \o <<kwTER>> \o lig \o <<kwEND>>

MergeWrite ==
    /\ mgPc \in {"start", "ensured"}
    /\ LET available == Available(receptor_chains(recFile))
           chain == PickChain(mgPreferred, available)
           rec == ReadAtoms(recFile)
           lig == ReadAtoms(ligFile)
       IN  /\ mgPreferred \in Range(available) \/ available # <<>>
           /\ lig_chain' = chain
           /\ mgOut' = WriteLines(MergedLines(rec,
                          [i \in 1..Len(lig) |-> MergeLigLine(lig[i], chain)]))
    /\ mgStatus' = "ok"
    /\ mgPc' = "done"
    /\ UNCHANGED <<recFile, ligFile, mgPreferred>>
    /\ UNCHANGED notMerge

MergeNext ==
    \/ EnsureLigand
    \/ MergeRaise
    \/ MergeWrite

MergeInit == MergeStart /\ SplitIdle /\ SanIdle /\ CleanIdle /\ AltIdle /\ PipeIdle /\ DockIdle /\ CkptIdle

SpecMerge == MergeInit /\ [][MergeNext]_vars

\* plip_convert_merge_and_run: the loop over pose_list

MAX_POSES == 20

\* pose_list = split_files[:MAX_POSES]
Processed == IF plTotal < MAX_POSES THEN plTotal ELSE MAX_POSES

PipeStart ==
    /\ plPc = "try"
    /\ plTotal \in 1..MaxPoses
    /\ plIdx = 1
    /\ plStage = "convert"
    /\ pose_results = <<>>
    /\ pose_folders = <<>>

\* a handler that lets IndexError through
CaughtButIndexError(kind) == kind # "IndexError"

\* "except Exception as e:" of the pose's try block
Caught(kind) == TRUE

\* the call of the stage returns: the try block goes on with the next call
Returns(next) ==
    /\ plStage' = next
    /\ UNCHANGED <<plPc, plTotal, plIdx, pose_results, pose_folders>>

\* the call of the stage raises: the except clause appends the error entry
\* of this pose, or the exception leaves the function
Raises(kind) ==
    /\ IF Caught(kind)
       THEN /\ pose_results' = Append(pose_results,
                                  [pose |-> plIdx, error |-> <<plStage, kind>>])
            /\ plPc' = "finally"
       ELSE /\ pose_results' = pose_results
            /\ plPc' = "crashed"
    /\ UNCHANGED <<plTotal, plIdx, plStage, pose_folders>>

\* convert_lig_pose_to_pdb(pose_tmp, lig_pdb)
PoseConvert ==
    /\ plPc = "try" /\ plStage = "convert"
    /\ Returns("ensure") \/ Raises("RuntimeError")
    /\ UNCHANGED notPipe

\* ensure_ligand_chain_and_hetatm(lig_pdb, desired_chain="L") in its own try
PoseEnsure ==
    /\ plPc = "try" /\ plStage = "ensure"
    /\ Returns("merge") \/ Returns("ensure_fallback")
    /\ UNCHANGED notPipe

\* except Exception: ensure_ligand_chain_and_hetatm(lig_pdb, desired_chain=None)
PoseEnsureFallback ==
    /\ plPc = "try" /\ plStage = "ensure_fallback"
    /\ Returns("merge") \/ Raises("OSError")
    /\ UNCHANGED notPipe

\* merge_receptor_and_ligand: IndexError when no chain letter is free
PoseMerge ==
    /\ plPc = "try" /\ plStage = "merge"
    /\ Returns("clean") \/ Raises("IndexError")
    /\ UNCHANGED notPipe

\* minimal_clean_pdb: RuntimeError when no atom line survives
PoseClean ==
    /\ plPc = "try" /\ plStage = "clean"
    /\ Returns("plip") \/ Raises("RuntimeError")
    /\ UNCHANGED notPipe

\* PLIP and the exports; the result entry of the pose is appended last
PoseAnalyze ==
    /\ plPc = "try" /\ plStage = "plip"
    /\ \/ /\ pose_results' = Append(pose_results,
                                [pose |-> plIdx, error |-> <<"none", "none">>])
          /\ plPc' = "finally"
          /\ UNCHANGED <<plTotal, plIdx, plStage, pose_folders>>
       \/ Raises("Exception")
    /\ UNCHANGED notPipe

\* finally: the pose log; then manifest["pose_folders"].append(pose_name)
\* and the next pose of the loop
PoseFinally ==
    /\ plPc = "finally"
    /\ pose_folders' = Append(pose_folders, plIdx)
    /\ IF plIdx < Processed
       THEN plIdx' = plIdx + 1 /\ plStage' = "convert" /\ plPc' = "try"
       ELSE plIdx' = plIdx /\ plStage' = "none" /\ plPc' = "return"
    /\ UNCHANGED <<plTotal, pose_results>>
    /\ UNCHANGED notPipe

\* the manifest is saved and the response returned
PipeReturn ==
    /\ plPc = "return"
    /\ plPc' = "done"
    /\ UNCHANGED <<plTotal, plIdx, plStage, pose_results, pose_folders>>
    /\ UNCHANGED notPipe

PipeNext ==
    \/ PoseConvert
    \/ PoseEnsure
    \/ PoseEnsureFallback
    \/ PoseMerge
    \/ PoseClean
    \/ PoseAnalyze
    \/ PoseFinally
    \/ PipeReturn

PipeInit == PipeStart /\ SplitIdle /\ SanIdle /\ CleanIdle /\ MergeIdle /\ AltIdle /\ DockIdle /\ CkptIdle

SpecPipe == PipeInit /\ [][PipeNext]_vars

\* api/docking: run_docking, _run_script_in_background, cancel_job

ThePid == 1

\* the exit code of a subprocess ended by a signal
Killed == 0 - 15

Min(a, b) == IF a < b THEN a ELSE b

\* the ramp without its ceiling
NewProgressUncapped(prev, n) == prev + 1 + (n \div 50)

\* newp = min(90, prev + 1 + int(lines_read / 50))
NewProgress(prev, n) == Min(90, prev + 1 + (n \div 50))

\* a finalization that ignores the canceled flag
FinalStatusIgnoresCancel(isCanceled, rc) == IF rc = 0 THEN "done" ELSE "failed"

\* "finalize status": canceled, done or failed
FinalStatus(isCanceled, rc) ==
    IF isCanceled THEN "canceled" ELSE IF rc = 0 THEN "done" ELSE "failed"

DockStart == DockIdle

\* run_docking: the job entry is created and the runner thread started
RunDocking ==
    /\ jobStatus = "absent"
    /\ jobStatus' = "queued"
    /\ progress' = 0
    /\ jobPid' = NoPid
    /\ canceled' = FALSE
    /\ rnPc' = "start"
    /\ UNCHANGED <<procState, returncode, signalled, lines_read, ckPc, ckPid,
                   nCancel>>
    /\ UNCHANGED notDock

\* JOBS[job_id].update({"status": "running", "progress": 0, "pid": None})
RunnerStart ==
    /\ rnPc = "start"
    /\ jobStatus' = "running"
    /\ progress' = 0
    /\ jobPid' = NoPid
    /\ rnPc' = "popen"
    /\ UNCHANGED <<canceled, procState, returncode, signalled, lines_read,
                   ckPc, ckPid, nCancel>>
    /\ UNCHANGED notDock

\* proc = subprocess.Popen(cmd, ...)
RunnerPopen ==
    /\ rnPc = "popen"
    /\ procState' = "running"
    /\ rnPc' = "setpid"
    /\ UNCHANGED <<jobStatus, progress, jobPid, canceled, returncode,
                   signalled, lines_read, ckPc, ckPid, nCancel>>
    /\ UNCHANGED notDock

\* Popen raises: the except clause sets the status to failed
RunnerPopenFails ==
    /\ rnPc = "popen"
    /\ jobStatus' = "failed"
    /\ rnPc' = "end"
    /\ UNCHANGED <<progress, jobPid, canceled, procState, returncode,
                   signalled, lines_read, ckPc, ckPid, nCancel>>
    /\ UNCHANGED notDock

\* JOBS[job_id]["pid"] = proc.pid
RunnerSetPid ==
    /\ rnPc = "setpid"
    /\ jobPid' = ThePid
    /\ rnPc' = "loop"
    /\ UNCHANGED <<jobStatus, progress, canceled, procState, returncode,
                   signalled, lines_read, ckPc, ckPid, nCancel>>
    /\ UNCHANGED notDock

\* a line of output is read; progress is updated when 0.5 s have passed
\* since the last update or lines_read is a multiple of 20
RunnerReadLine ==
    /\ rnPc = "loop" /\ procState = "running"
    /\ lines_read < MaxLines
    /\ lines_read' = lines_read + 1
    /\ \E late \in BOOLEAN :
          progress' = IF late \/ (lines_read + 1) % 20 = 0
                      THEN NewProgress(progress, lines_read + 1)
                      ELSE progress
    /\ UNCHANGED <<jobStatus, jobPid, canceled, rnPc, procState, returncode,
                   signalled, ckPc, ckPid, nCancel>>
    /\ UNCHANGED notDock

\* the script ends by itself
ProcExit ==
    /\ procState = "running"
    /\ procState' = "exited"
    /\ returncode' \in {0, 1}
    /\ UNCHANGED <<jobStatus, progress, jobPid, canceled, rnPc, signalled,
                   lines_read, ckPc, ckPid, nCancel>>
    /\ UNCHANGED notDock

\* proc.poll() is not None: the loop ends, proc.wait(), "finalize status"
RunnerFinalize ==
    /\ rnPc = "loop" /\ procState = "exited"
    /\ jobStatus' = FinalStatus(canceled, returncode)
    /\ progress' = IF FinalStatus(canceled, returncode) = "done" THEN 100
                   ELSE progress
    /\ rnPc' = "end"
    /\ UNCHANGED <<jobPid, canceled, procState, returncode, signalled,
                   lines_read, ckPc, ckPid, nCancel>>
    /\ UNCHANGED notDock

\* cancel_job for a job id that is not in JOBS: 404
CancelNotFound ==
    /\ ckPc = "idle" /\ nCancel < MaxCancels
    /\ jobStatus = "absent"
    /\ nCancel' = nCancel + 1
    /\ UNCHANGED <<jobStatus, progress, jobPid, canceled, rnPc, procState,
                   returncode, signalled, lines_read, ckPc, ckPid>>
    /\ UNCHANGED notDock

\* cancel_job, first locked block: job["canceled"] = True; pid = job.get("pid")
CancelMark ==
    /\ ckPc = "idle" /\ nCancel < MaxCancels
    /\ jobStatus # "absent"
    /\ canceled' = TRUE
    /\ ckPid' = jobPid
    /\ ckPc' = "kill"
    /\ nCancel' = nCancel + 1
    /\ UNCHANGED <<jobStatus, progress, jobPid, rnPc, procState, returncode,
                   signalled, lines_read>>
    /\ UNCHANGED notDock

\* if pid: os.kill(pid, 15), then os.kill(pid, 9) if it is still alive
CancelKill ==
    /\ ckPc = "kill"
    /\ IF ckPid # NoPid /\ procState = "running"
       THEN /\ signalled' = TRUE
            /\ procState' = "exited"
            /\ returncode' = Killed
       ELSE UNCHANGED <<signalled, procState, returncode>>
    /\ ckPc' = "set"
    /\ UNCHANGED <<jobStatus, progress, jobPid, canceled, rnPc, lines_read,
                   ckPid, nCancel>>
    /\ UNCHANGED notDock

\* cancel_job, second locked block: JOBS[job_id]["status"] = "canceled"
CancelSetStatus ==
    /\ ckPc = "set"
    /\ jobStatus' = "canceled"
    /\ ckPc' = "idle"
    /\ UNCHANGED <<progress, jobPid, canceled, rnPc, procState, returncode,
                   signalled, lines_read, ckPid, nCancel>>
    /\ UNCHANGED notDock

DockNext ==
    \/ RunDocking
    \/ RunnerStart
    \/ RunnerPopen
    \/ RunnerPopenFails
    \/ RunnerSetPid
    \/ RunnerReadLine
    \/ ProcExit
    \/ RunnerFinalize
    \/ CancelNotFound
    \/ CancelMark
    \/ CancelKill
    \/ CancelSetStatus

DockInit == DockStart /\ SplitIdle /\ SanIdle /\ CleanIdle /\ MergeIdle /\ AltIdle /\ PipeIdle /\ CkptIdle

SpecDock == DockInit /\ [][DockNext]_vars

\* ---------------------------------------------------------------------
\* The generated docking script (utils/framework_writer.py): run(),
\* run_task() and the checkpoint file.  The tasks of the pool run in any
\* order and interleave.
\* ---------------------------------------------------------------------
Tasks == 1..MaxTasks

\* generate_tasks: label = "<ligand>::<receptor>::<center>"; the tasks of
\* one script differ in their labels
Label(t) == <<"l", Digits[t + 1], ":", ":", "r">>

\* save_checkpoint: f.write(label + "\n") in append mode
save_checkpoint(label, file) == file \o label \o <<NL>>

\* load_checkpoint: set(line.strip() for line in f)
load_checkpoint(file) ==
    LET ls == ReadLines(file) IN {Strip(ls[i]) : i \in 1..Len(ls)}

ShouldSaveRcOnly(rc, exists) == rc = 0

\* run_task: if process.returncode == 0 and os.path.exists(out_file)
ShouldSave(rc, exists) == rc = 0 /\ exists

CkptStart ==
    /\ cpPc = "load"
    /\ ckptFile = <<>> /\ ckptAtStart = <<>>
    /\ completed = {}
    /\ tkPc = [t \in Tasks |-> "pending"]
    /\ tkRc = [t \in Tasks |-> 0]
    /\ tkOut = [t \in Tasks |-> FALSE]
    /\ vinaStarted = {}
    /\ runNo = 1

\* run(): completed = load_checkpoint(checkpoint_file)
RunLoad ==
    /\ cpPc = "load"
    /\ completed' = load_checkpoint(ckptFile)
    /\ ckptAtStart' = ckptFile
    /\ cpPc' = "pool"
    /\ UNCHANGED <<ckptFile, tkPc, tkRc, tkOut, vinaStarted, runNo>>
    /\ UNCHANGED notCkpt

\* run_task: if label in completed: return
TaskSkip ==
    \E t \in Tasks :
        /\ cpPc = "pool" /\ tkPc[t] = "pending"
        /\ Label(t) \in completed
        /\ tkPc' = [tkPc EXCEPT ![t] = "skipped"]
        /\ UNCHANGED <<cpPc, ckptFile, ckptAtStart, completed, tkRc, tkOut,
                       vinaStarted, runNo>>
        /\ UNCHANGED notCkpt

\* run_task: process = subprocess.Popen(cmd, ...)
TaskStart ==
    \E t \in Tasks :
        /\ cpPc = "pool" /\ tkPc[t] = "pending"
        /\ Label(t) \notin completed
        /\ tkPc' = [tkPc EXCEPT ![t] = "running"]
        /\ vinaStarted' = vinaStarted \cup {t}
        /\ UNCHANGED <<cpPc, ckptFile, ckptAtStart, completed, tkRc, tkOut,
                       runNo>>
        /\ UNCHANGED notCkpt

\* run_task: Popen raises; except Exception counts the task as failed
TaskPopenFails ==
    \E t \in Tasks :
        /\ cpPc = "pool" /\ tkPc[t] = "pending"
        /\ Label(t) \notin completed
        /\ tkPc' = [tkPc EXCEPT ![t] = "finished"]
        /\ UNCHANGED <<cpPc, ckptFile, ckptAtStart, completed, tkRc, tkOut,
                       vinaStarted, runNo>>
        /\ UNCHANGED notCkpt

\* run_task: process.wait(); the process has set its return code and has
\* or has not written out_file
TaskExit ==
    \E t \in Tasks, rc \in {0, 1}, exists \in BOOLEAN :
        /\ cpPc = "pool" /\ tkPc[t] = "running"
        /\ tkPc' = [tkPc EXCEPT ![t] = "exited"]
        /\ tkRc' = [tkRc EXCEPT ![t] = rc]
        /\ tkOut' = [tkOut EXCEPT ![t] = exists]
        /\ UNCHANGED <<cpPc, ckptFile, ckptAtStart, completed, vinaStarted,
                       runNo>>
        /\ UNCHANGED notCkpt

\* run_task: the success branch: save_checkpoint(label, checkpoint_file)
TaskRecord ==
    \E t \in Tasks :
        /\ cpPc = "pool" /\ tkPc[t] = "exited"
        /\ ShouldSave(tkRc[t], tkOut[t])
        /\ ckptFile' = save_checkpoint(Label(t), ckptFile)
        /\ tkPc' = [tkPc EXCEPT ![t] = "finished"]
        /\ UNCHANGED <<cpPc, ckptAtStart, completed, tkRc, tkOut,
                       vinaStarted, runNo>>
        /\ UNCHANGED notCkpt

\* run_task: the else branch (failed_counter), or the log file of the
\* success branch cannot be written: nothing is appended
TaskFailed ==
    \E t \in Tasks :
        /\ cpPc = "pool" /\ tkPc[t] = "exited"
        /\ tkPc' = [tkPc EXCEPT ![t] = "finished"]
        /\ UNCHANGED <<cpPc, ckptFile, ckptAtStart, completed, tkRc, tkOut,
                       vinaStarted, runNo>>
        /\ UNCHANGED notCkpt

\* run(): every future of the pool has returned
RunEnd ==
    /\ cpPc = "pool"
    /\ \A t \in Tasks : tkPc[t] \in {"skipped", "finished"}
    /\ cpPc' = "end"
    /\ UNCHANGED <<ckptFile, ckptAtStart, completed, tkPc, tkRc, tkOut,
                   vinaStarted, runNo>>
    /\ UNCHANGED notCkpt

\* the script is started again on the same output folder
NextRun ==
    /\ cpPc = "end" /\ runNo < MaxRuns
    /\ cpPc' = "load"
    /\ runNo' = runNo + 1
    /\ tkPc' = [t \in Tasks |-> "pending"]
    /\ tkRc' = [t \in Tasks |-> 0]
    /\ tkOut' = [t \in Tasks |-> FALSE]
    /\ vinaStarted' = {}
    /\ UNCHANGED <<ckptFile, ckptAtStart, completed>>
    /\ UNCHANGED notCkpt

CkptNext ==
    \/ RunLoad \/ TaskSkip \/ TaskStart \/ TaskPopenFails \/ TaskExit
    \/ TaskRecord \/ TaskFailed \/ RunEnd \/ NextRun

CkptInit == CkptStart /\ SplitIdle /\ SanIdle /\ CleanIdle /\ MergeIdle /\ AltIdle /\ PipeIdle /\ DockIdle

SpecCkpt == CkptInit /\ [][CkptNext]_vars

\* Properties of merge_receptor_and_ligand

\* the chain ids carried by the ATOM/HETATM records of the receptor
RecChainIds ==
    {RStripNL(recFile[i])[22] :
        i \in {j \in 1..Len(recFile) :
                 IsAtomLine(recFile[j]) /\ Len(RStripNL(recFile[j])) >= 22}}

Letters == Range(ascii_uppercase)

\* the lines of the merged file after the TER separator the merger wrote
MergedLigLines ==
    LET out == FileLines(mgOut)
        nrec == Len(ReadAtoms(recFile))
    IN  SubSeq(out, nrec + 2, Len(out) - 1)

\* C1: the chain id chosen for the ligand is carried by no receptor atom
\* record whenever the receptor uses fewer than 26 letters (and it is the
\* chain id written on the ligand atom lines that have a chain column); when
\* the receptor uses all 26 letters the merge fails and writes nothing
C1_ChainCollisionFree ==
    mgPc = "done" =>
        /\ Cardinality(RecChainIds \cap Letters) < 26 =>
              /\ mgStatus = "ok"
              /\ lig_chain \in Letters \ RecChainIds
              /\ LET lig == MergedLigLines IN
                 \A n \in 1..Len(lig) :
                    (IsAtomLine(lig[n]) /\ Len(Strip(lig[n])) >= 22)
                    => lig[n][22] = lig_chain
        /\ Cardinality(RecChainIds \cap Letters) = 26 =>
              mgStatus = "error" /\ mgOut = NoFile /\ lig_chain = NoChain

C1_Witness ==
    /\ mgPc = "done" /\ mgStatus = "ok"
    /\ mgPreferred \in RecChainIds
    /\ Cardinality(RecChainIds \cap Letters) = 25
    /\ LET lig == MergedLigLines IN
       \E n \in 1..Len(lig) : IsAtomLine(lig[n]) /\ lig[n][22] = lig_chain

\* the number of ATOM/HETATM lines of a file
AtomCount(file) == Len(AtomsOf(StripLines(file)))

\* C2: the merged file has as many ATOM/HETATM lines as the receptor file and
\* the ligand file together
C2_AtomConservation ==
    (mgPc = "done" /\ mgStatus = "ok") =>
        Len(AtomsOf(FileLines(mgOut))) = AtomCount(recFile) + AtomCount(ligFile)

C2_Witness ==
    /\ mgPc = "done" /\ mgStatus = "ok"
    /\ AtomCount(recFile) = 2 /\ AtomCount(ligFile) = 2
    /\ \E i \in 1..Len(ligFile) : ligFile[i] = ligShort
    /\ \E i \in 1..Len(recFile) : recFile[i] = recL

\* C11: a cleaned file holds no CONECT line
C11_NoConect ==
    clOut # NoFile =>
        LET out == FileLines(clOut) IN
        \A n \in 1..Len(out) : ~IsConectMark(out[n])

C11_Witness ==
    /\ clPc = "done" /\ clStatus = "ok"
    /\ \E i \in 1..Len(clIn) : Outside(i) /\ IsConectMark(InLine(i))

IsEndLine(l) == StartsWith(Upper(l), kwEND)

\* C12 as stated: the last line of a cleaned file is an END record and the
\* line before it is neither an END record nor blank
C12_ExactlyOneEnd ==
    (clPc = "done" /\ clStatus = "ok") =>
        LET out == FileLines(clOut) IN
        /\ Len(out) >= 2
        /\ IsEndLine(out[Len(out)])
        /\ ~IsEndLine(out[Len(out) - 1])
        /\ Strip(out[Len(out) - 1]) # <<>>

\* C12 amended: the last line of a cleaned file is an END record; when the
\* input has no END line outside its MODEL blocks the file holds exactly one
\* END line and the line before it is not blank
C12_EndsWithEnd ==
    (clPc = "done" /\ clStatus = "ok") =>
        LET out == FileLines(clOut) IN
        /\ Len(out) >= 2
        /\ IsEndLine(out[Len(out)])
        /\ (\A i \in 1..Len(clIn) : Outside(i) => ~IsEndLine(InLine(i))) =>
              /\ Cardinality({n \in 1..Len(out) : IsEndLine(out[n])}) = 1
              /\ Strip(out[Len(out) - 1]) # <<>>

C12_Witness ==
    /\ clPc = "done" /\ clStatus = "ok"
    /\ \A i \in 1..Len(clIn) : ~IsEndLine(InLine(i))
    /\ Len(clIn) >= 2 /\ Strip(InLine(Len(clIn))) = <<>>
    /\ Len(FileLines(clOut)) = 2

\* C20: for an input without MODEL lines that holds an atom line the
\* sanitizer accepts, the cleaner succeeds and the atom lines of its output
\* are the accepted atom lines of the input, unmodified and in input order
C20_RejectionIsLocal ==
    LET accepted == SelectSeq(AtomsOf(InLines),
                              LAMBDA l : sanitize_coordinates(l) # None)
    IN  (/\ clPc = "done"
         /\ \A i \in 1..Len(clIn) : ~IsModelMark(InLine(i))
         /\ accepted # <<>>)
        => /\ clStatus = "ok"
           /\ AtomsOf(FileLines(clOut)) = accepted

C20_Witness ==
    /\ clPc = "done" /\ clStatus = "ok"
    /\ \A i \in 1..Len(clIn) : ~IsModelMark(InLine(i))
    /\ Len(clIn) = 3 /\ clIn[2] = clAtomBig
    /\ Len(AtomsOf(FileLines(clOut))) = 2

\* Properties of the ligand normalization and of the merged file

\* the lines read_atoms retains of a file
Retained(file) ==
    SelectSeq(StripLines(file), LAMBDA l :
        ~(StartsWith(l, kwMODEL) \/ StartsWith(l, kwENDMDL)
            \/ StartsWith(l, kwEND)))

MergeOk == mgPc = "done" /\ mgStatus = "ok"

\* C13 as stated: after normalization every ligand atom line, the ones
\* shorter than 22 columns included, starts with HETATM and carries the one
\* chain id in column 22
C13_AllHetatmOneChain ==
    /\ mgPc = "ensured" =>
          LET ls == StripLines(ligFile)
              atoms == {n \in 1..Len(ls) : IsAtomLine(ls[n])}
          IN  /\ \A n \in atoms : StartsWith(ls[n], kwHETATM) /\ Len(ls[n]) >= 22
              /\ \A n, m \in atoms : ls[n][22] = ls[m][22]
    /\ MergeOk =>
          LET lig == Retained(ligFile)
              out == MergedLigLines
          IN  \A n \in 1..Len(lig) :
                 IsAtomLine(lig[n]) =>
                    StartsWith(out[n], kwHETATM) /\ out[n][22] = lig_chain

\* C13 amended: after normalization every ligand atom line of at least 22
\* columns starts with HETATM and carries the one chain id in column 22; a
\* shorter atom line is left as it is by ensure_ligand_chain_and_hetatm, and
\* the merger writes it as a HETATM line with a blank column 22
C13_LongLinesHetatmOneChain ==
    /\ mgPc = "ensured" =>
          LET ls == StripLines(ligFile)
              long == {n \in 1..Len(ls) : IsAtomLine(ls[n]) /\ Len(ls[n]) >= 22}
          IN  /\ \A n \in long : StartsWith(ls[n], kwHETATM)
              /\ \A n, m \in long : ls[n][22] = ls[m][22]
    /\ MergeOk =>
          LET lig == Retained(ligFile)
              out == MergedLigLines
          IN  \A n \in 1..Len(lig) :
                 IsAtomLine(lig[n]) =>
                    /\ StartsWith(out[n], kwHETATM)
                    /\ out[n][22] = IF Len(lig[n]) >= 22 THEN lig_chain ELSE SP

C13_Witness ==
    /\ MergeOk
    /\ LET lig == Retained(ligFile) IN
       /\ \E n \in 1..Len(lig) : IsAtomLine(lig[n]) /\ Len(lig[n]) < 22
       /\ \E n \in 1..Len(lig) : IsAtomLine(lig[n]) /\ Len(lig[n]) >= 22

Ord(c) == CHOOSE i \in 1..26 : ascii_uppercase[i] = c

SameBut(a, b) ==
    IF ~IsAtomLine(a) THEN b = a
    ELSE \/ b = a
         \/ LET padded == LJust(a, 80) IN
            /\ Len(b) = Len(padded)
            /\ SubSeq(b, 7, 21) = SubSeq(padded, 7, 21)
            /\ SubSeq(b, 23, Len(b)) = SubSeq(padded, 23, Len(padded))

\* C15: normalizing a ligand line changes only columns 1-6 and column 22 of
\* an atom line, apart from padding it to 80 columns, and leaves every other
\* line unchanged, in ensure_ligand_chain_and_hetatm and in the merger
C15_OnlyRecordAndChain ==
    /\ [][(mgPc = "start" /\ mgPc' = "ensured" /\ ligFile # <<>>) =>
            LET before == StripLines(ligFile)
                after == StripLines(ligFile')
            IN  /\ Len(after) = Len(before)
                /\ \A n \in 1..Len(before) : SameBut(before[n], after[n])]_vars
    /\ [](MergeOk =>
            LET lig == Retained(ligFile)
                out == MergedLigLines
            IN  /\ Len(out) = Len(lig)
                /\ \A n \in 1..Len(lig) : SameBut(lig[n], out[n]))

C15_Witness ==
    /\ MergeOk
    /\ LET lig == Retained(ligFile) IN
       \E n \in 1..Len(lig) :
          /\ StartsWith(lig[n], kwHETATM) /\ Len(lig[n]) = 80
          /\ lig[n][22] = "L"
          /\ lig_chain = "A"

IsTerLine(l) == StartsWith(l, kwTER)

TerCount(ls) == Cardinality({n \in 1..Len(ls) : IsTerLine(ls[n])})

\* C16 as stated: the merged file holds no MODEL or ENDMDL line, exactly one
\* TER line and exactly one END line, which is its last line
C16_NoMarkersOneTerOneEnd ==
    MergeOk =>
        LET out == FileLines(mgOut) IN
        /\ \A n \in 1..Len(out) :
              ~StartsWith(out[n], kwMODEL) /\ ~StartsWith(out[n], kwENDMDL)
        /\ TerCount(out) = 1
        /\ {n \in 1..Len(out) : StartsWith(out[n], kwEND)} = {Len(out)}

\* C16 amended: the merged file holds no line that starts with MODEL or
\* ENDMDL and exactly one line that starts with END, its last; the TER lines
\* of the inputs are kept, so it holds the separator TER after the receptor
\* lines and one TER line more for each TER line of the inputs
C16_NoMarkersOneEnd ==
    MergeOk =>
        LET out == FileLines(mgOut) IN
        /\ \A n \in 1..Len(out) :
              ~StartsWith(out[n], kwMODEL) /\ ~StartsWith(out[n], kwENDMDL)
        /\ {n \in 1..Len(out) : StartsWith(out[n], kwEND)} = {Len(out)}
        /\ out[Len(Retained(recFile)) + 1] = kwTER
        /\ TerCount(out) = 1 + TerCount(recFile) + TerCount(ligFile)

C16_Witness ==
    /\ MergeOk
    /\ recFile = recWrapped
    /\ Len(ligFile) = 5 /\ StartsWith(ligFile[1], kwMODEL)
    /\ TerCount(FileLines(mgOut)) = 3

\* what identifies a ligand line in the merged file: the whole line, or
\* columns 7-21 of an atom line
LigTag(l) == IF IsAtomLine(l) THEN SubSeq(LJust(l, 80), 7, 21) ELSE l

\* C17: the retained receptor lines are written byte-identical and in input
\* order before the TER separator, the ligand lines after it in input order
C17_OrderKept ==
    MergeOk =>
        LET out == FileLines(mgOut)
            rec == Retained(recFile)
            lig == Retained(ligFile)
        IN  /\ Len(out) = Len(rec) + Len(lig) + 2
            /\ SubSeq(out, 1, Len(rec)) = rec
            /\ out[Len(rec) + 1] = kwTER
            /\ \A n \in 1..Len(lig) :
                  LigTag(out[Len(rec) + 1 + n]) = LigTag(lig[n])

C17_Witness ==
    /\ MergeOk
    /\ LET rec == Retained(recFile)
           lig == Retained(ligFile)
       IN  /\ Len(rec) = 2 /\ rec[1] # rec[2]
           /\ Len(lig) = 2 /\ LigTag(lig[1]) # LigTag(lig[2])
           /\ IsAtomLine(lig[1])

\* Properties of split_pdbqt_models on inputs without models

\* C18: for an input with no MODEL and no ENDMDL line the splitter returns
\* exactly one pose, numbered 1, that is a copy of the input
C18_SinglePoseCopy ==
    (spPc = "done" /\ srcBlocks = <<>>) =>
        /\ Len(produced) = 1
        /\ produced[1].idx = 1
        /\ produced[1].content = Flatten(SourceLines(srcHeader, <<>>, srcFinalNL))

C18_Witness ==
    /\ spPc = "done" /\ srcBlocks = <<>>
    /\ \E j \in 1..srcHeader : IsAtomLine(HeaderLine(j))
    /\ Len(produced) = 1
    /\ Len(FileLines(produced[1].content)) = srcHeader

\* the input is empty or holds header lines only, none of them an atom line
HeaderOnly ==
    /\ srcBlocks = <<>>
    /\ \A j \in 1..srcHeader : ~IsAtomLine(HeaderLine(j))

\* C19 as stated: for an empty or header-only input the splitter returns
\* zero poses
C19_ZeroPoses ==
    (spPc = "done" /\ HeaderOnly) => produced = <<>>

\* C19 amended: for an empty or header-only input the splitter returns one
\* pose, numbered 1, that is a copy of the input (an empty file for an empty
\* input)
C19_OnePoseForEmpty ==
    (spPc = "done" /\ HeaderOnly) =>
        /\ Len(produced) = 1
        /\ produced[1].idx = 1
        /\ FileLines(produced[1].content) =
              [j \in 1..srcHeader |-> RStripNL(HeaderLine(j))]

C19_Witness ==
    /\ spPc = "done" /\ HeaderOnly
    /\ srcHeader = 0
    /\ produced = <<[idx |-> 1, content |-> <<>>]>>

\* Properties of split_pdbqt_models on inputs with MODEL blocks

\* the blocks of the source that have body lines
FullBlocks == {k \in 1..Len(srcBlocks) : srcBlocks[k].body >= 1}

\* the lines of pose n
PoseLines(n) == FileLines(produced[n].content)

\* C22: a line between an ENDMDL and the next MODEL is in no emitted pose
C22_StrayDiscarded ==
    spPc = "done" =>
        \A k \in 1..Len(srcBlocks) : \A j \in 1..srcBlocks[k].stray :
            \A n \in 1..Len(produced) :
                RStripNL(StrayLine(k, j)) \notin Range(PoseLines(n))

IsEndmdlLine(l) == StartsWith(U(l), kwENDMDL)

\* C23: every pose emitted for a MODEL block holds exactly one ENDMDL line,
\* and that line is its last
C23_OneEndmdlLast ==
    (spPc = "done" /\ FullBlocks # {}) =>
        \A n \in 1..Len(produced) :
            LET ls == PoseLines(n) IN
            {i \in 1..Len(ls) : IsEndmdlLine(ls[i])} = {Len(ls)}

\* C24: a MODEL block without body lines gives no pose and takes no pose
\* number: when some block has body lines, there is one pose for each block
\* that has body lines and the poses are numbered 1..K
C24_EmptyBodiesSkipped ==
    (spPc = "done" /\ FullBlocks # {}) =>
        /\ Len(produced) = Cardinality(FullBlocks)
        /\ \A n \in 1..Len(produced) : produced[n].idx = n

C24_Witness ==
    /\ spPc = "done"
    /\ Len(srcBlocks) = 2
    /\ srcBlocks[1].body = 0 /\ srcBlocks[1].term
    /\ srcBlocks[2].body >= 1
    /\ Len(produced) = 1 /\ produced[1].idx = 1

\* C26: when minimal_clean_pdb is run on a file it has written, it succeeds
\* and writes the same content again
C26_CleanIdempotent ==
    (clFirst # NoFile /\ clPc = "done") =>
        clStatus = "ok" /\ clOut = clFirst

C26_Witness ==
    /\ clFirst # NoFile /\ clPc = "done" /\ clStatus = "ok"
    /\ LET out == FileLines(clOut) IN
       /\ Len(out) >= 4
       /\ \E n \in 1..Len(out) : Strip(out[n]) = <<>>

\* the atom lines of each pose of a splitter's result
PoseAtoms(poses) ==
    [k \in 1..Len(poses) |-> AtomsOf(FileLines(poses[k].content))]

\* C25: the three splitters return the same number of poses, and pose k of
\* each holds the same atom lines
C25_SplittersAgree ==
    altPc = "both" =>
        /\ PoseAtoms(poses3) = PoseAtoms(produced)
        /\ PoseAtoms(posesApi) = PoseAtoms(produced)

\* Properties of plip_convert_merge_and_run

\* C21: an exception raised while pose k is processed never leaves the
\* function; it gives the error entry of pose k, the later poses are still
\* processed, and the returned list holds one entry for each processed pose,
\* in pose order
C21_PoseErrorsContained ==
    /\ plPc # "crashed"
    /\ \A n \in 1..Len(pose_results) : pose_results[n].pose = n
    /\ plPc \in {"try", "finally"} =>
          Len(pose_results) = (IF plPc = "try" THEN plIdx - 1 ELSE plIdx)
    /\ plPc \in {"return", "done"} => Len(pose_results) = Processed

C21_Witness ==
    /\ plPc = "done"
    /\ Len(pose_results) = 2
    /\ pose_results[1].error = <<"merge", "IndexError">>
    /\ pose_results[2].error = <<"none", "none">>

\* Properties of the docking job

Terminal == {"done", "failed", "canceled"}

\* C27: no step changes a status of done, failed or canceled
C27_StatusForward ==
    [][(jobStatus \in Terminal) => (jobStatus' = jobStatus)]_vars

\* C28: once cancel_job has set the canceled flag and returned, the script
\* subprocess does not run to its end without having been sent a signal
C28_CancelStopsProcess ==
    [][(canceled /\ ckPc = "idle" /\ procState = "running"
          /\ procState' = "exited") => signalled']_vars

\* C29: progress is an integer in 0..100 that never decreases, is at most 90
\* until the subprocess has exited, and becomes 100 only when the subprocess
\* exited with code 0 and the job is not marked canceled at finalization
C29_ProgressMonotone ==
    /\ [](/\ progress \in 0..100
          /\ procState # "exited" => progress <= 90)
    /\ [][/\ progress' >= progress
          /\ (progress' = 100 /\ progress # 100) =>
                (procState = "exited" /\ returncode = 0 /\ ~canceled)]_vars

C29_Witness ==
    /\ jobStatus = "done" /\ progress = 100
    /\ lines_read = MaxLines

\* the labels on the lines of a checkpoint file
Recorded(file) == Range(FileLines(file))

\* C30: the label of a task is appended to the checkpoint only in a step
\* of a task whose process has exited with return code 0 and whose output
\* file exists; a task whose label was in the checkpoint when the run
\* started gets no process in that run, and a task whose label was not
\* there is not skipped, so that a failed task is tried again
C30_CheckpointOnlyAfterSuccess ==
    /\ [][\A t \in Tasks :
            (ckptFile' = ckptFile \o Label(t) \o <<NL>>)
                => (tkPc[t] = "exited" /\ tkRc[t] = 0 /\ tkOut[t])]_vars
    /\ [][(ckptFile' # ckptFile)
            => (\E t \in Tasks : ckptFile' = ckptFile \o Label(t) \o <<NL>>)]_vars
    /\ [](\A t \in vinaStarted : Label(t) \notin Recorded(ckptAtStart))
    /\ [](\A t \in Tasks :
            (cpPc # "idle" /\ tkPc[t] = "skipped")
                => (Label(t) \in Recorded(ckptAtStart)))

\* in a second run one task recorded by the first is skipped and one task
\* that failed in the first has a process again
C30_Witness ==
    /\ runNo = 2 /\ cpPc = "pool"
    /\ \E t \in Tasks : tkPc[t] = "skipped"
    /\ \E t \in vinaStarted : tkPc[t] = "finished"
                              /\ Label(t) \notin Recorded(ckptFile)

====
